---- MODULE Spec2Model ----
(***************************************************************************)
(* KaMela Finance: the ledger / obligation reconciliation engine of the    *)
(* desktop front-end (src/kamela_finance.py), which keeps its facts in one *)
(* SQLite connection (self.conn / self.cursor).                            *)
(*                                                                         *)
(* Amounts are REAL in the source; the handlers are modelled on whole      *)
(* units, which a float represents exactly, and the arithmetic of a        *)
(* repayment is modelled a second time on doubles near multiples of 0.1,   *)
(* where it rounds.  Free-form text columns that no rule reads             *)
(* (person_name, description, notes, start_date) are left out.             *)
(* The status 'remboursé' is written "rembourse".                          *)
(*                                                                         *)
(* Every handler reads and writes through the one connection, so a write   *)
(* that was executed but not committed is visible to every later query and *)
(* is made durable by the next commit of any handler: db is that view.     *)
(* A storage call may raise sqlite3.Error; the handlers catch ValueError   *)
(* only and never roll back.                                               *)
(*                                                                         *)
(* The derived views (calculate_stats, load_alerts, load_all_deadlines,    *)
(* ...) are queries over db and the current date; view holds what a query  *)
(* step returned.  The widgets they fill are not modelled, so the          *)
(* refresh_all_data that ends a successful handler changes nothing here.   *)
(* A date 'YYYY-MM-DD' is a day number; a calendar month is DaysPerMonth   *)
(* consecutive days.                                                       *)
(*                                                                         *)
(* The Streamlit front-end (src/app.py) keeps its rows in a Google Sheet.  *)
(* Every interaction runs the script from the top: it reads both           *)
(* worksheets, and the handler of the widget that fired replaces a whole   *)
(* worksheet by the frame it read plus its change.  conn.read is taken to  *)
(* return the worksheet as it stands; free-text columns are left out and   *)
(* accents are dropped from the labels.                                    *)
(***************************************************************************)
EXTENDS Integers, Sequences, FiniteSets, TLC

\* ------------------------------------------------------------------ bounds
\* rows ever inserted into debts
MaxDebts == 1
\* rows ever inserted into transactions
MaxTrans == 1
\* rows ever inserted into repayments
MaxRepay == 2
\* largest amount typed into a form
MaxAmount == 2
\* days in a calendar month
DaysPerMonth == 10
\* the day the session starts on
StartDay == 2
\* browser sessions of the Streamlit front-end
MaxSessions == 2
\* rows ever appended to the worksheet Flux
MaxFlux == 2
\* rows ever appended to the worksheet Dettes
MaxDettes == 1
\* rows of transactions an earlier session left in the database file
MaxSavedTrans == 2
\* rows of debts an earlier session left in the database file
MaxSavedDebts == 2
\* largest amount typed with one decimal, in tenths
MaxTenths == 6

\* ------------------------------------------------------------------ inputs
TransTypes == {"revenu", "depense"}
DebtTypes  == {"dette", "pret"}
Phones     == {"", "p1"}
Dates      == {1}
Categories == {"Salaire", "Autre"}
Rates      == {-1, 0}

\* The text of an entry: a number, or something float() rejects.
Text(vals) == [num : {TRUE}, val : vals] \cup [num : {FALSE}, val : {0}]

TransEntries == Text(-1..MaxAmount)            \* add_transaction_dialog, amount_var
DebtEntries  == Text(-1..MaxAmount)            \* add_debt_dialog, amount_var
RateEntries  == Text(Rates)                    \* add_debt_dialog, rate_var
RepayEntries == Text(-1..(MaxAmount + 1))      \* show_repayment_dialog, amount_var

\* Where a handler's storage call raises sqlite3.Error:
\*   "first"  the first statement raises, nothing was written
\*   "mid"    the statement after the first write raises
\*   "commit" conn.commit() raises; the transaction stays open
Faults == {"none", "first", "mid", "commit"}

VARIABLES
    db,       \* the tables as self.cursor reads them (committed and pending writes)
    dialog,   \* the modal repayment dialog and the values it captured
    last,     \* the handler that ran last and how it ended
    today,    \* the date datetime.now() gives
    view,     \* what the step returned, when it was a query of a derived view
    sheet,    \* the Google Sheet of the Streamlit front-end: worksheets Flux, Dettes
    session   \* the script runs of the Streamlit front-end, one per browser session

vars == <<db, dialog, last, today, view, sheet, session>>

NoView == [kind |-> "none", arg |-> "", out |-> <<>>]

NoDialog == [kind |-> "none", debt_id |-> 0, total |-> 0, paid |-> 0, remaining |-> 0]

EmptyDb == [transactions |-> {}, seq_transactions |-> 0,
            debts |-> <<>>, repayments |-> <<>>, contacts |-> {}]

\* The handler that ran last and how it ended: "ok", or the exception raised.
Outcome(op, outcome) == [op |-> op, outcome |-> outcome]

\* ------------------------------------------------------------- SQL helpers
\* SUM(CASE WHEN type='revenu' THEN amount ELSE -amount END) over transactions rows
RECURSIVE SumSigned(_)
SumSigned(rows) ==
    IF rows = {} THEN 0
    ELSE LET t == CHOOSE x \in rows : TRUE
         IN (IF t.type = "revenu" THEN t.amount ELSE -t.amount) + SumSigned(rows \ {t})

\* the balance query with every row counted as 'revenu'
BalanceUnsigned(d) ==
    SumSigned({[t EXCEPT !.type = "revenu"] : t \in d.transactions})

\* calculate_stats, the balance query
Balance(d) == SumSigned(d.transactions)

\* created_at DEFAULT CURRENT_TIMESTAMP: the clock second at which a row is
\* inserted.  Only the order of the seconds is read, so they are numbered from
\* the rows that are stored: the second of the newest row, or the one after it.
Stamps(d) ==
    IF d.transactions = {} THEN {1}
    ELSE LET newest == CHOOSE c \in {t.created_at : t \in d.transactions} :
                           \A t \in d.transactions : t.created_at <= c
         IN  {newest, newest + 1}

InsertTransaction(d, type, category, amount, date, created_at) ==
    [d EXCEPT !.seq_transactions = @ + 1,
              !.transactions = @ \cup {[id |-> d.seq_transactions + 1, type |-> type,
                                         category |-> category, amount |-> amount,
                                         date |-> date, created_at |-> created_at]}]

\* the DELETE with the repayments table emptied as well
DeleteTransactionAndRepayments(d, id) ==
    [d EXCEPT !.transactions = {t \in @ : t.id # id}, !.repayments = <<>>]

DeleteTransactionRow(d, id) ==
    [d EXCEPT !.transactions = {t \in @ : t.id # id}]

InsertDebt(d, type, amount, rate, due) ==
    [d EXCEPT !.debts = Append(@, [type |-> type, amount |-> amount, amount_paid |-> 0,
                                   interest_rate |-> rate, due_date |-> due,
                                   status |-> "actif"])]

InsertContact(d, phone, ctype) ==
    [d EXCEPT !.contacts = @ \cup {[phone |-> phone, type |-> ctype]}]

InsertRepayment(d, debt_id, amount) ==
    [d EXCEPT !.repayments = Append(@, [debt_id |-> debt_id, amount |-> amount])]

UpdateDebt(d, debt_id, new_paid, new_status) ==
    [d EXCEPT !.debts[debt_id].amount_paid = new_paid,
              !.debts[debt_id].status = new_status]

\* ------------------------------------------------------------------- state
Sessions == 1..MaxSessions

\* the two worksheets with their header rows only
EmptySheet == [Flux |-> <<>>, Dettes |-> <<>>]

\* no script run has loaded anything yet
NoRun == [pc |-> "idle", df_flux |-> <<>>, df_dettes |-> <<>>, i |-> 0]

Init ==
    /\ db = EmptyDb
    /\ dialog = NoDialog
    /\ last = Outcome("init", "ok")
    /\ today = StartDay
    /\ view = NoView
    /\ sheet = EmptySheet
    /\ session = [s \in Sessions |-> NoRun]

\* ----------------------------------------------------------------- actions

\* add_transaction_dialog.save without the test of line 867
AddTransactionUnchecked(type, category, entry, date, flt) ==
    /\ dialog.kind = "none"
    /\ view' = NoView
    /\ UNCHANGED <<today, sheet, session>>
    /\ db.seq_transactions < MaxTrans
    /\ flt \in {"none", "first", "commit"}
    /\ IF ~entry.num
       THEN /\ last' = Outcome("add_transaction", "ValueError")
            /\ UNCHANGED <<db, dialog>>
       ELSE /\ \E created_at \in Stamps(db) :
                   db' = InsertTransaction(db, type, category, entry.val, date, created_at)
            /\ last' = Outcome("add_transaction", "ok")
            /\ UNCHANGED dialog

\* add_transaction_dialog.save
AddTransaction(type, category, entry, date, flt) ==
    /\ dialog.kind = "none"
    /\ view' = NoView
    /\ UNCHANGED <<today, sheet, session>>
    /\ db.seq_transactions < MaxTrans
    /\ flt \in {"none", "first", "commit"}
    /\ IF ~entry.num \/ entry.val <= 0
       THEN /\ last' = Outcome("add_transaction", "ValueError")
            /\ UNCHANGED <<db, dialog>>
       ELSE \E created_at \in Stamps(db) :
            LET ins == InsertTransaction(db, type, category, entry.val, date, created_at) IN
            CASE flt = "first"  -> /\ last' = Outcome("add_transaction", "sqlite3.Error")
                                   /\ UNCHANGED <<db, dialog>>
              [] flt = "commit" -> /\ db' = ins
                                   /\ last' = Outcome("add_transaction", "sqlite3.Error")
                                   /\ UNCHANGED dialog
              [] OTHER          -> /\ db' = ins
                                   /\ last' = Outcome("add_transaction", "ok")
                                   /\ UNCHANGED dialog

\* add_debt_dialog.save
AddDebt(type, phone, amountEntry, rateEntry, due, flt) ==
    /\ dialog.kind = "none"
    /\ view' = NoView
    /\ UNCHANGED <<today, sheet, session>>
    /\ IF ~amountEntry.num \/ ~rateEntry.num
       THEN /\ last' = Outcome("add_debt", "ValueError")
            /\ UNCHANGED <<db, dialog>>
       ELSE LET ins == InsertDebt(db, type, amountEntry.val, rateEntry.val, due)
                known == \E c \in db.contacts : c.phone = phone
                newContact == ~known /\ phone # ""
                contact_type == IF type = "pret" THEN "debiteur" ELSE "creancier"
                both == IF newContact THEN InsertContact(ins, phone, contact_type) ELSE ins
            IN
            CASE flt = "first"  -> /\ last' = Outcome("add_debt", "sqlite3.Error")
                                   /\ UNCHANGED <<db, dialog>>
              [] flt = "mid"    -> /\ db' = ins
                                   /\ last' = Outcome("add_debt", "sqlite3.Error")
                                   /\ UNCHANGED dialog
              [] flt = "commit" -> /\ db' = both
                                   /\ last' = Outcome("add_debt", "sqlite3.Error")
                                   /\ UNCHANGED dialog
              [] OTHER          -> /\ db' = both
                                   /\ last' = Outcome("add_debt", "ok")
                                   /\ UNCHANGED dialog

\* on_transaction_click, column Actions, confirmed
DeleteTransaction(id, flt) ==
    /\ dialog.kind = "none"
    /\ view' = NoView
    /\ UNCHANGED <<today, sheet, session>>
    /\ flt \in {"none", "first", "commit"}
    /\ LET del == DeleteTransactionRow(db, id) IN
       CASE flt = "first"  -> /\ last' = Outcome("delete_transaction", "sqlite3.Error")
                              /\ UNCHANGED <<db, dialog>>
         [] flt = "commit" -> /\ db' = del
                              /\ last' = Outcome("delete_transaction", "sqlite3.Error")
                              /\ UNCHANGED dialog
         [] OTHER          -> /\ db' = del
                              /\ last' = Outcome("delete_transaction", "ok")
                              /\ UNCHANGED dialog

\* show_repayment_dialog, up to the creation of the form
ShowRepaymentDialog(debt_id) ==
    /\ dialog.kind = "none"
    /\ view' = NoView
    /\ UNCHANGED <<today, sheet, session>>
    /\ IF debt_id \in DOMAIN db.debts
       THEN LET total == db.debts[debt_id].amount
                paid  == db.debts[debt_id].amount_paid
            IN /\ dialog' = [kind |-> "repayment", debt_id |-> debt_id, total |-> total,
                             paid |-> paid, remaining |-> total - paid]
               /\ last' = Outcome("show_repayment_dialog", "ok")
       ELSE /\ dialog' = [NoDialog EXCEPT !.kind = "empty"]
            /\ last' = Outcome("show_repayment_dialog", "TypeError")
    /\ UNCHANGED db

\* show_repayment_dialog.save
SaveRepayment(entry, flt) ==
    /\ dialog.kind = "repayment"
    /\ view' = NoView
    /\ UNCHANGED <<today, sheet, session>>
    /\ IF ~entry.num \/ entry.val <= 0 \/ entry.val > dialog.remaining
       THEN /\ last' = Outcome("save_repayment", "ValueError")
            /\ UNCHANGED <<db, dialog>>
       ELSE /\ Len(db.repayments) < MaxRepay
            /\ LET amount == entry.val
                   ins == InsertRepayment(db, dialog.debt_id, amount)
                   new_paid == dialog.paid + amount
                   new_status == IF new_paid >= dialog.total THEN "rembourse" ELSE "actif"
                   upd == UpdateDebt(ins, dialog.debt_id, new_paid, new_status)
               IN
               CASE flt = "first"  -> /\ last' = Outcome("save_repayment", "sqlite3.Error")
                                      /\ UNCHANGED <<db, dialog>>
                 [] flt = "mid"    -> /\ db' = ins
                                      /\ last' = Outcome("save_repayment", "sqlite3.Error")
                                      /\ UNCHANGED dialog
                 [] flt = "commit" -> /\ db' = upd
                                      /\ last' = Outcome("save_repayment", "sqlite3.Error")
                                      /\ UNCHANGED dialog
                 [] OTHER          -> /\ db' = upd
                                      /\ dialog' = NoDialog
                                      /\ last' = Outcome("save_repayment", "ok")

\* the window manager closes the modal dialog
CloseDialog ==
    /\ dialog.kind # "none"
    /\ view' = NoView
    /\ UNCHANGED <<today, sheet, session>>
    /\ dialog' = NoDialog
    /\ last' = Outcome("close_dialog", "ok")
    /\ UNCHANGED db

Next ==
    \/ \E type \in TransTypes, category \in Categories, entry \in TransEntries,
          date \in Dates, flt \in Faults :
          AddTransaction(type, category, entry, date, flt)
    \/ \E type \in DebtTypes, phone \in Phones, a \in DebtEntries, r \in RateEntries,
          due \in Dates, flt \in Faults :
          Len(db.debts) < MaxDebts /\ AddDebt(type, phone, a, r, due, flt)
    \/ \E id \in 1..MaxTrans, flt \in Faults : DeleteTransaction(id, flt)
    \/ \E debt_id \in 1..MaxDebts : ShowRepaymentDialog(debt_id)
    \/ \E entry \in RepayEntries, flt \in Faults : SaveRepayment(entry, flt)
    \/ CloseDialog

Spec == Init /\ [][Next]_vars

\* ------------------------------------------------------------ derived views

\* days_int <= 3 is tagged 'urgent'
UrgentDays == 3
\* days_int <= 7 is tagged 'warning'
WarningDays == 7
\* load_upcoming_deadlines looks timedelta(days=7) ahead
UpcomingDays == 7

Filters == {"Tous", "Revenus", "Depenses"}

\* strftime('%Y-%m', date)
YearMonth(date) == (date - 1) \div DaysPerMonth

\* SUM(amount) over a set of transactions rows
RECURSIVE SumAmount(_)
SumAmount(rows) ==
    IF rows = {} THEN 0
    ELSE LET t == CHOOSE x \in rows : TRUE
         IN  t.amount + SumAmount(rows \ {t})

\* The orders in which a query may return the rows ids: every arrangement
\* that ORDER BY allows, rows with the same key in any order.
Arrangements(ids) ==
    {s \in [1..Cardinality(ids) -> ids] :
        \A i, j \in 1..Cardinality(ids) : i # j => s[i] # s[j]}

\* calculate_stats with the monthly sums taken over every month
calculate_stats_all_months(d, now) ==
    [balance         |-> Balance(d),
     monthly_income  |-> SumAmount({t \in d.transactions : t.type = "revenu"}),
     monthly_expense |-> SumAmount({t \in d.transactions : t.type = "depense"}),
     active_debts    |-> Cardinality({i \in DOMAIN d.debts :
                             d.debts[i].status \in {"actif", "en_retard"}})]

calculate_stats(d, now) ==
    LET current_month == YearMonth(now) IN
    [balance         |-> Balance(d),
     monthly_income  |-> SumAmount({t \in d.transactions :
                             t.type = "revenu" /\ YearMonth(t.date) = current_month}),
     monthly_expense |-> SumAmount({t \in d.transactions :
                             t.type = "depense" /\ YearMonth(t.date) = current_month}),
     active_debts    |-> Cardinality({i \in DOMAIN d.debts :
                             d.debts[i].status \in {"actif", "en_retard"}})]

\* the count of late debts with a debt due today counted as late
LateDebtsDueToday(d, now) ==
    Cardinality({i \in DOMAIN d.debts :
                    d.debts[i].due_date <= now /\ d.debts[i].status = "actif"})

\* load_alerts, the count of late debts
LateDebts(d, now) ==
    Cardinality({i \in DOMAIN d.debts :
                    d.debts[i].due_date < now /\ d.debts[i].status = "actif"})

\* the alerts list load_alerts builds
load_alerts(d, now) ==
    LET stats == calculate_stats(d, now)
        late_debts == LateDebts(d, now)
    IN  (IF stats.balance < 0
         THEN <<[title |-> "Solde negatif", value |-> stats.balance]>> ELSE <<>>)
        \o (IF late_debts > 0
            THEN <<[title |-> "dettes en retard", value |-> late_debts]>> ELSE <<>>)

\* the rows in any order, as without the ORDER BY
AnyOrder(d, ids) == Arrangements(ids)

\* ORDER BY due_date ASC over the debts rows ids
DueOrders(d, ids) ==
    {o \in Arrangements(ids) :
        \A k \in 1..(Cardinality(ids) - 1) :
            d.debts[o[k]].due_date <= d.debts[o[k + 1]].due_date}

\* the 7-day list with the window one day longer
load_upcoming_deadlines_one_more_day(d, now) ==
    LET week_later == now + UpcomingDays + 1
        ids == {i \in DOMAIN d.debts :
                   /\ d.debts[i].due_date >= now /\ d.debts[i].due_date <= week_later
                   /\ d.debts[i].status = "actif"}
        Row(i) == [amount |-> d.debts[i].amount - d.debts[i].amount_paid,
                   due_date |-> d.debts[i].due_date, type |-> d.debts[i].type]
    IN  {[k \in 1..Cardinality(ids) |-> Row(s[k])] : s \in DueOrders(d, ids)}

\* the result lists load_upcoming_deadlines may fetch
load_upcoming_deadlines(d, now) ==
    LET week_later == now + UpcomingDays
        ids == {i \in DOMAIN d.debts :
                   /\ d.debts[i].due_date >= now /\ d.debts[i].due_date <= week_later
                   /\ d.debts[i].status = "actif"}
        Row(i) == [amount |-> d.debts[i].amount - d.debts[i].amount_paid,
                   due_date |-> d.debts[i].due_date, type |-> d.debts[i].type]
    IN  {[k \in 1..Cardinality(ids) |-> Row(s[k])] : s \in DueOrders(d, ids)}

\* the WHERE clause without the test of due_date
DeadlineIdsAnyDate(d, now) ==
    {i \in DOMAIN d.debts : d.debts[i].status = "actif"}

\* load_all_deadlines, the WHERE clause
DeadlineIds(d, now) ==
    {i \in DOMAIN d.debts : d.debts[i].due_date >= now /\ d.debts[i].status = "actif"}

\* the tag with < in place of <=
DeadlineTagStrict(days_int) ==
    IF days_int < UrgentDays THEN "urgent"
    ELSE IF days_int < WarningDays THEN "warning"
    ELSE "normal"

\* load_all_deadlines, the tag of a line
DeadlineTag(days_int) ==
    IF days_int <= UrgentDays THEN "urgent"
    ELSE IF days_int <= WarningDays THEN "warning"
    ELSE "normal"

\* the lines load_all_deadlines may put in the deadlines table
load_all_deadlines(d, now) ==
    LET ids == DeadlineIds(d, now)
        Row(i) ==
            LET days == d.debts[i].due_date - now
                days_int == IF days # 0 THEN days ELSE 0
            IN  [due |-> d.debts[i].due_date, type |-> d.debts[i].type,
                 amount |-> d.debts[i].amount - d.debts[i].amount_paid,
                 days_int |-> days_int, tag |-> DeadlineTag(days_int)]
    IN  {[k \in 1..Cardinality(ids) |-> Row(s[k])] : s \in DueOrders(d, ids)}

\* ORDER BY date DESC, created_at DESC: row t may stand right before row u
DateCreatedDesc(t, u) ==
    \/ t.date > u.date
    \/ t.date = u.date /\ t.created_at >= u.created_at

\* the lines load_transactions may put in the transactions table; rows of one
\* date inserted in one second come in any order
load_transactions(d, filter_type) ==
    LET rows == IF filter_type = "Revenus"
                THEN {t \in d.transactions : t.type = "revenu"}
                ELSE IF filter_type = "Depenses"
                THEN {t \in d.transactions : t.type = "depense"}
                ELSE d.transactions
        Line(t) == [id |-> t.id, date |-> t.date, type |-> t.type,
                    category |-> t.category, amount |-> t.amount]
        fetched == {s \in Arrangements(rows) :
                       \A k \in 1..(Cardinality(rows) - 1) :
                           DateCreatedDesc(s[k], s[k + 1])}
    IN  {[k \in 1..Cardinality(rows) |-> Line(s[k])] : s \in fetched}

\* the table of one debt type with the rows of every status
load_debts_data_every_status(d, debt_type) ==
    LET ids == {i \in DOMAIN d.debts : d.debts[i].type = debt_type}
        Row(i) == [id |-> i, amount |-> d.debts[i].amount,
                   amount_paid |-> d.debts[i].amount_paid,
                   remaining |-> d.debts[i].amount - d.debts[i].amount_paid,
                   interest_rate |-> d.debts[i].interest_rate,
                   due_date |-> d.debts[i].due_date, status |-> d.debts[i].status]
    IN  {[k \in 1..Cardinality(ids) |-> Row(s[k])] : s \in DueOrders(d, ids)}

\* the lines load_debts_data may put in the table of one debt type
load_debts_data(d, debt_type) ==
    LET ids == {i \in DOMAIN d.debts :
                   d.debts[i].type = debt_type /\ d.debts[i].status # "rembourse"}
        Row(i) == [id |-> i, amount |-> d.debts[i].amount,
                   amount_paid |-> d.debts[i].amount_paid,
                   remaining |-> d.debts[i].amount - d.debts[i].amount_paid,
                   interest_rate |-> d.debts[i].interest_rate,
                   due_date |-> d.debts[i].due_date, status |-> d.debts[i].status]
    IN  {[k \in 1..Cardinality(ids) |-> Row(s[k])] : s \in DueOrders(d, ids)}

\* Each query runs while no modal dialog holds the grab, and returns one of
\* the results its SQL allows.

CalculateStats ==
    /\ dialog.kind = "none"
    /\ \E out \in {calculate_stats(db, today)} :
           view' = [kind |-> "calculate_stats", arg |-> "", out |-> out]
    /\ last' = Outcome("calculate_stats", "ok")
    /\ UNCHANGED <<db, dialog, today, sheet, session>>

\* load_alerts that also writes 'en_retard' to the late debts it counts
LoadAlertsMarkingLate ==
    /\ dialog.kind = "none"
    /\ view' = [kind |-> "load_alerts", arg |-> "", out |-> load_alerts(db, today)]
    /\ db' = [db EXCEPT !.debts =
                 [i \in DOMAIN @ |->
                     IF @[i].due_date < today /\ @[i].status = "actif"
                     THEN [@[i] EXCEPT !.status = "en_retard"] ELSE @[i]]]
    /\ last' = Outcome("load_alerts", "ok")
    /\ UNCHANGED <<dialog, today, sheet, session>>

LoadAlerts ==
    /\ dialog.kind = "none"
    /\ \E out \in {load_alerts(db, today)} :
           view' = [kind |-> "load_alerts", arg |-> "", out |-> out]
    /\ last' = Outcome("load_alerts", "ok")
    /\ UNCHANGED <<db, dialog, today, sheet, session>>

LoadUpcomingDeadlines ==
    /\ dialog.kind = "none"
    /\ \E out \in load_upcoming_deadlines(db, today) :
           view' = [kind |-> "load_upcoming_deadlines", arg |-> "", out |-> out]
    /\ last' = Outcome("load_upcoming_deadlines", "ok")
    /\ UNCHANGED <<db, dialog, today, sheet, session>>

LoadAllDeadlines ==
    /\ dialog.kind = "none"
    /\ \E out \in load_all_deadlines(db, today) :
           view' = [kind |-> "load_all_deadlines", arg |-> "", out |-> out]
    /\ last' = Outcome("load_all_deadlines", "ok")
    /\ UNCHANGED <<db, dialog, today, sheet, session>>

LoadTransactions(filter_type) ==
    /\ dialog.kind = "none"
    /\ \E out \in load_transactions(db, filter_type) :
           view' = [kind |-> "load_transactions", arg |-> filter_type, out |-> out]
    /\ last' = Outcome("load_transactions", "ok")
    /\ UNCHANGED <<db, dialog, today, sheet, session>>

LoadDebtsData(debt_type) ==
    /\ dialog.kind = "none"
    /\ \E out \in load_debts_data(db, debt_type) :
           view' = [kind |-> "load_debts_data", arg |-> debt_type, out |-> out]
    /\ last' = Outcome("load_debts_data", "ok")
    /\ UNCHANGED <<db, dialog, today, sheet, session>>

\* ------------------------------------------- a session over a saved database

\* init_database opens kamela_finance.db and creates only the tables that are
\* missing, so a session starts on the rows earlier sessions committed.

\* the dates a session over a ledger runs on: in the month of StartDay or in
\* the next one
LedgerDays == {StartDay, DaysPerMonth + 1}

\* the dates a session over debts runs on
DebtDays == {StartDay, StartDay + 1}

SavedDates == {1, DaysPerMonth, DaysPerMonth + 1}

SavedDueDates == {StartDay - 1, StartDay, StartDay + UrgentDays, StartDay + UrgentDays + 1,
                  StartDay + WarningDays, StartDay + WarningDays + 1}

\* transactions rows as add_transaction_dialog.save inserts them
SavedTransRows ==
    [type : TransTypes, category : {"Autre"}, amount : 1..MaxAmount, date : SavedDates]

\* debts rows as add_debt_dialog.save inserts them and the repayment dialog
\* settles them
SavedDebtRows ==
    {r \in [type : DebtTypes, amount : {1}, amount_paid : {0, 1}, interest_rate : {0},
            due_date : SavedDueDates, status : {"actif", "rembourse"}] :
        r.status = "rembourse" <=> r.amount_paid >= r.amount}

\* the rows were inserted one per second
SavedLedger(rows) ==
    [transactions |-> {[id |-> k, type |-> rows[k].type, category |-> rows[k].category,
                        amount |-> rows[k].amount, date |-> rows[k].date,
                        created_at |-> k] :
                           k \in DOMAIN rows},
     seq_transactions |-> Len(rows)]

RECURSIVE SavedRepayments(_, _)
SavedRepayments(debts, k) ==
    IF k > Len(debts) THEN <<>>
    ELSE (IF debts[k].amount_paid > 0
          THEN <<[debt_id |-> k, amount |-> debts[k].amount_paid]>> ELSE <<>>)
         \o SavedRepayments(debts, k + 1)

SavedStore(rows, debts) ==
    [transactions |-> SavedLedger(rows).transactions,
     seq_transactions |-> SavedLedger(rows).seq_transactions,
     debts |-> debts, repayments |-> SavedRepayments(debts, 1), contacts |-> {}]

SeqsUpTo(S, n) == UNION {[1..k -> S] : k \in 0..n}

\* a ledger of up to MaxSavedTrans rows and no debts
SavedLedgers ==
    {SavedStore(rows, <<>>) : rows \in SeqsUpTo(SavedTransRows, MaxSavedTrans)}

\* up to MaxSavedDebts debts beside one expense
SavedDebts ==
    {SavedStore(<<r>>, debts) :
        r \in {x \in SavedTransRows : x.type = "depense" /\ x.amount = 1 /\ x.date = 1},
        debts \in SeqsUpTo(SavedDebtRows, MaxSavedDebts)}

InitViews ==
    /\ \/ db \in SavedLedgers /\ today \in LedgerDays
       \/ db \in SavedDebts /\ today \in DebtDays
    /\ dialog = NoDialog
    /\ last = Outcome("init", "ok")
    /\ view = NoView
    /\ sheet = EmptySheet
    /\ session = [s \in Sessions |-> NoRun]

\* the pages are opened and reloaded, nothing is entered
NextQueries ==
    \/ CalculateStats
    \/ LoadAlerts
    \/ LoadUpcomingDeadlines
    \/ LoadAllDeadlines
    \/ \E filter_type \in Filters : LoadTransactions(filter_type)
    \/ \E debt_type \in DebtTypes : LoadDebtsData(debt_type)

SpecQueries == InitViews /\ [][NextQueries]_vars

\* a session over a saved ledger: transactions are added and deleted, the
\* statistics and the transactions table are reloaded
InitLedger ==
    /\ db \in SavedLedgers
    /\ today \in LedgerDays
    /\ dialog = NoDialog
    /\ last = Outcome("init", "ok")
    /\ view = NoView
    /\ sheet = EmptySheet
    /\ session = [s \in Sessions |-> NoRun]

NextLedger ==
    \/ \E type \in TransTypes, category \in Categories, entry \in TransEntries,
          date \in Dates, flt \in Faults :
          AddTransaction(type, category, entry, date, flt)
    \/ \E id \in 1..MaxTrans, flt \in Faults : DeleteTransaction(id, flt)
    \/ CalculateStats
    \/ \E filter_type \in Filters : LoadTransactions(filter_type)

SpecLedger == InitLedger /\ [][NextLedger]_vars

\* the pages are loaded between additions, deletions and repayments
NextViews ==
    \/ CalculateStats
    \/ LoadAlerts
    \/ LoadUpcomingDeadlines
    \/ LoadAllDeadlines
    \/ \E filter_type \in Filters : LoadTransactions(filter_type)
    \/ \E debt_type \in DebtTypes : LoadDebtsData(debt_type)
    \/ \E type \in TransTypes, category \in Categories, entry \in TransEntries,
          date \in Dates, flt \in Faults :
          AddTransaction(type, category, entry, date, flt)
    \/ \E id \in 1..MaxTrans, flt \in Faults : DeleteTransaction(id, flt)
    \/ \E debt_id \in 1..MaxDebts : ShowRepaymentDialog(debt_id)
    \/ \E entry \in RepayEntries, flt \in Faults : SaveRepayment(entry, flt)
    \/ CloseDialog

SpecViews == InitViews /\ [][NextViews]_vars

\* the seconds at which n rows were inserted one after the other: the first in
\* second 1, each next one in the same second or in the one after it
Seconds(n) ==
    {c \in [1..n -> 1..n] :
        /\ n > 0 => c[1] = 1
        /\ \A k \in 1..(n - 1) : c[k + 1] \in {c[k], c[k] + 1}}

\* a ledger of up to MaxSavedTrans + 1 rows of amount 1 dated in one month,
\* some inserted in the same second
StampedLedgers ==
    {[SavedStore(rows, <<>>) EXCEPT
         !.transactions = {[t EXCEPT !.created_at = c[t.id]] : t \in @}] :
        rows \in SeqsUpTo({r \in SavedTransRows : r.amount = 1 /\ r.date <= DaysPerMonth},
                          MaxSavedTrans + 1),
        c \in Seconds(MaxSavedTrans + 1)}

\* the transactions page and the debts pages are opened and reloaded over a
\* saved database
InitListing ==
    /\ \/ db \in StampedLedgers
       \/ db \in SavedDebts
    /\ today = StartDay
    /\ dialog = NoDialog
    /\ last = Outcome("init", "ok")
    /\ view = NoView
    /\ sheet = EmptySheet
    /\ session = [s \in Sessions |-> NoRun]

NextListing ==
    \/ \E filter_type \in Filters : LoadTransactions(filter_type)
    \/ \E debt_type \in DebtTypes : LoadDebtsData(debt_type)

SpecListing == InitListing /\ [][NextListing]_vars

\* one debt of amount MaxAmount due on StartDay, with what was repaid of it
OneDebt ==
    {SavedStore(<<>>, <<r>>) :
        r \in {x \in [type : DebtTypes, amount : {MaxAmount}, amount_paid : 0..MaxAmount,
                       interest_rate : {0}, due_date : {StartDay},
                       status : {"actif", "rembourse"}] :
                  x.status = "rembourse" <=> x.amount_paid >= x.amount}}

\* a session over a database that holds one debt: transactions are added and
\* deleted, a second debt is entered, repayments are recorded and every page
\* is loaded
InitFrame ==
    /\ db \in OneDebt
    /\ today = StartDay
    /\ dialog = NoDialog
    /\ last = Outcome("init", "ok")
    /\ view = NoView
    /\ sheet = EmptySheet
    /\ session = [s \in Sessions |-> NoRun]

NextFrame ==
    \/ \E type \in TransTypes, entry \in Text({1}), flt \in Faults :
          AddTransaction(type, "Autre", entry, 1, flt)
    \/ \E id \in 1..MaxTrans, flt \in Faults : DeleteTransaction(id, flt)
    \/ \E type \in DebtTypes, phone \in Phones, a \in Text({1}), r \in Text({0}),
          flt \in Faults :
          Len(db.debts) < MaxDebts + 1 /\ AddDebt(type, phone, a, r, 1, flt)
    \/ \E debt_id \in 1..(MaxDebts + 1) : ShowRepaymentDialog(debt_id)
    \/ \E entry \in RepayEntries, flt \in Faults : SaveRepayment(entry, flt)
    \/ CloseDialog
    \/ CalculateStats
    \/ LoadAlerts
    \/ LoadUpcomingDeadlines
    \/ LoadAllDeadlines
    \/ \E filter_type \in Filters : LoadTransactions(filter_type)
    \/ \E debt_type \in DebtTypes : LoadDebtsData(debt_type)

SpecFrame == InitFrame /\ [][NextFrame]_vars

\* ------------------------------------------- amounts that are not whole units

\* amount and amount_paid are REAL and the handlers compute with Python floats,
\* IEEE 754 doubles.  A double near a multiple of 0.1 is written [k, e]: k times
\* the double 0.1 plus e times 2^-56, which is exact for every value below.
\* The double 0.1 is 7205759403792794 * 2^-56, that is 26 modulo 32.

Zero == [k |-> 0, e |-> 0]

\* float(text) for a text of tenths/10 with one decimal: the nearest double
Float(tenths) ==
    IF tenths = 0 THEN Zero
    ELSE [k |-> tenths, e |-> <<0, 0, -2, 0, -2, -4, -6, 0, -2>>[tenths]]

\* x <= y and x < y on doubles
fleq(x, y) == x.k < y.k \/ (x.k = y.k /\ x.e <= y.e)
fless(x, y) == x.k < y.k \/ (x.k = y.k /\ x.e < y.e)

\* the spacing, in units of 2^-56, of the doubles around k * 0.1 + e * 2^-56:
\* 1 in [1/16, 1/8), 2 in [1/8, 1/4), 4 in [1/4, 1/2), 8 in [1/2, 1)
Ulp(k, e) ==
    IF k = 1 THEN 1
    ELSE IF k = 2 THEN 2
    ELSE IF k \in {3, 4} THEN 4
    ELSE IF k = 5 /\ e < -2 THEN 4
    ELSE 8

\* the exact result k * 0.1 + e * 2^-56 rounded to the nearest double, ties to
\* the even mantissa; a result nearer to 0 than 1/16 is exact
Round(k, e) ==
    IF k = 0 THEN [k |-> 0, e |-> e]
    ELSE LET u == Ulp(k, e)
             v == (k * 26 + e) % (2 * u)
             m == v % u
         IN  IF 2 * m < u THEN [k |-> k, e |-> e - m]
             ELSE IF 2 * m > u THEN [k |-> k, e |-> e - m + u]
             ELSE IF v - m = 0 THEN [k |-> k, e |-> e - m]
             ELSE [k |-> k, e |-> e - m + u]

\* x + y and x - y on doubles
fadd(x, y) == Round(x.k + y.k, x.e + y.e)
fsub(x, y) == Round(x.k - y.k, x.e - y.e)

\* show_repayment_dialog on the debt debt_id followed by its save of amount,
\* with no storage error: the store it leaves
repay(d, debt_id, amount) ==
    LET total == d.debts[debt_id].amount
        paid == d.debts[debt_id].amount_paid
        remaining == fsub(total, paid)
    IN  IF fleq(amount, Zero) \/ fless(remaining, amount) THEN d
        ELSE LET new_paid == fadd(paid, amount)
                 new_status == IF fleq(total, new_paid) THEN "rembourse" ELSE "actif"
             IN  UpdateDebt(InsertRepayment(d, debt_id, amount),
                            debt_id, new_paid, new_status)

\* one debt whose amount was typed with one decimal
InitDecimal ==
    /\ \E type \in DebtTypes, tenths \in 1..MaxTenths :
          db = [EmptyDb EXCEPT !.debts =
                   <<[type |-> type, amount |-> Float(tenths), amount_paid |-> Zero,
                      interest_rate |-> 0, due_date |-> StartDay, status |-> "actif"]>>]
    /\ today = StartDay
    /\ dialog = NoDialog
    /\ last = Outcome("init", "ok")
    /\ view = NoView
    /\ sheet = EmptySheet
    /\ session = [s \in Sessions |-> NoRun]

\* the repayment dialog of the debt is opened and an amount typed with one
\* decimal is confirmed
RepayDecimal(tenths) ==
    /\ dialog.kind = "none"
    /\ db' = repay(db, 1, Float(tenths))
    /\ last' = Outcome("save_repayment", IF db' = db THEN "ValueError" ELSE "ok")
    /\ view' = NoView
    /\ UNCHANGED <<dialog, today, sheet, session>>

NextDecimal == \E tenths \in 0..MaxTenths : RepayDecimal(tenths)

SpecDecimal == InitDecimal /\ [][NextDecimal]_vars

\* ------------------------------------------------- the Streamlit front-end

\* st.number_input of the form ajout_flux: no min_value
FluxMontants == {-1, 0, 1}

\* st.number_input of the form ajout_dette: min_value=0.0
DetteMontants == {0, 1}

FluxCategories == {"Salaire"}

DetteTypes == {"Dette (Je dois)", "Pret (On me doit)"}

\* how a conn.update call ends: it replaces the worksheet, or raises first
Updates == {"none", "first"}

\* the signed amount of the Flux row that the Payer button writes
Impact(row) == IF row.Type = "Dette (Je dois)" THEN -row.Montant ELSE row.Montant

\* a script run starts: df_flux, df_dettes = load_data()
LoadData(s) ==
    /\ session[s].pc \in {"idle", "loaded"}
    /\ session' = [session EXCEPT ![s] = [pc |-> "loaded", df_flux |-> sheet.Flux,
                                          df_dettes |-> sheet.Dettes, i |-> 0]]
    /\ last' = Outcome("load_data", "ok")
    /\ UNCHANGED <<db, dialog, today, view, sheet>>

\* the submit button of the form ajout_flux
AjoutFlux(s, f_date, f_mt, f_cat, flt) ==
    /\ session[s].pc = "loaded"
    /\ Len(session[s].df_flux) < MaxFlux
    /\ LET nouvelle_ligne == [Date |-> f_date, Montant |-> f_mt, Categorie |-> f_cat]
           updated_df == Append(session[s].df_flux, nouvelle_ligne)
       IN  IF flt = "first"
           THEN /\ last' = Outcome("ajout_flux", "error")
                /\ UNCHANGED sheet
           ELSE /\ sheet' = [sheet EXCEPT !.Flux = updated_df]
                /\ last' = Outcome("ajout_flux", "ok")
    /\ session' = [session EXCEPT ![s].pc = "idle"]
    /\ UNCHANGED <<db, dialog, today, view>>

\* the submit button of the form ajout_dette
AjoutDette(s, tp, mt, ech, flt) ==
    /\ session[s].pc = "loaded"
    /\ Len(session[s].df_dettes) < MaxDettes
    /\ LET nouvelle_dette == [Type |-> tp, Montant |-> mt, Echeance |-> ech,
                              Statut |-> "En cours"]
           updated_dettes == Append(session[s].df_dettes, nouvelle_dette)
       IN  IF flt = "first"
           THEN /\ last' = Outcome("ajout_dette", "error")
                /\ UNCHANGED sheet
           ELSE /\ sheet' = [sheet EXCEPT !.Dettes = updated_dettes]
                /\ last' = Outcome("ajout_dette", "ok")
    /\ session' = [session EXCEPT ![s].pc = "idle"]
    /\ UNCHANGED <<db, dialog, today, view>>

\* the Payer button of row i, up to the update of the worksheet Dettes
Payer(s, i, flt) ==
    /\ session[s].pc = "loaded"
    /\ i \in DOMAIN session[s].df_dettes
    /\ session[s].df_dettes[i].Statut = "En cours"
    /\ Len(session[s].df_flux) < MaxFlux
    /\ LET df_dettes == [session[s].df_dettes EXCEPT ![i].Statut = "Paye"]
       IN  IF flt = "first"
           THEN /\ session' = [session EXCEPT ![s].pc = "idle"]
                /\ last' = Outcome("payer", "error")
                /\ UNCHANGED sheet
           ELSE /\ sheet' = [sheet EXCEPT !.Dettes = df_dettes]
                /\ session' = [session EXCEPT ![s].pc = "payer", ![s].i = i,
                                              ![s].df_dettes = df_dettes]
                /\ last' = Outcome("payer", "dettes")
    /\ UNCHANGED <<db, dialog, today, view>>

\* the Payer button, from the impact to st.rerun
PayerFlux(s, flt) ==
    /\ session[s].pc = "payer"
    /\ LET row == session[s].df_dettes[session[s].i]
           nouvelle_ligne_flux == [Date |-> today, Montant |-> Impact(row),
                                   Categorie |-> "Dettes"]
           updated_flux == Append(session[s].df_flux, nouvelle_ligne_flux)
       IN  IF flt = "first"
           THEN /\ last' = Outcome("payer", "error")
                /\ UNCHANGED sheet
           ELSE /\ sheet' = [sheet EXCEPT !.Flux = updated_flux]
                /\ last' = Outcome("payer", "ok")
    /\ session' = [session EXCEPT ![s].pc = "idle"]
    /\ UNCHANGED <<db, dialog, today, view>>

NextApp ==
    \/ \E s \in Sessions : LoadData(s)
    \/ \E s \in Sessions, f_date \in Dates, f_mt \in FluxMontants, f_cat \in FluxCategories,
          flt \in Updates :
          AjoutFlux(s, f_date, f_mt, f_cat, flt)
    \/ \E s \in Sessions, tp \in DetteTypes, mt \in DetteMontants, ech \in Dates,
          flt \in Updates :
          AjoutDette(s, tp, mt, ech, flt)
    \/ \E s \in Sessions, i \in 1..MaxDettes, flt \in Updates : Payer(s, i, flt)
    \/ \E s \in Sessions, flt \in Updates : PayerFlux(s, flt)

SpecApp == Init /\ [][NextApp]_vars

\* -------------------------------------------------------------- properties

\* SUM(amount) over the repayments rows of one debt
RECURSIVE SumRepayments(_, _)
SumRepayments(rows, debt_id) ==
    IF rows = <<>> THEN 0
    ELSE (IF Head(rows).debt_id = debt_id THEN Head(rows).amount ELSE 0)
         + SumRepayments(Tail(rows), debt_id)

Remaining(d, debt_id) == d.debts[debt_id].amount - d.debts[debt_id].amount_paid

\* The kind of the cash-flow entry that settles an obligation of the given type:
\* an outflow for a debt, an inflow for a loan.
MirrorKind(debt_type) == IF debt_type = "dette" THEN "depense" ELSE "revenu"

\* C1: in every state, for every obligation the amounts of the stored
\* repayments with its debt_id sum to its amount_paid.
C1_RepaymentSum ==
    \A id \in DOMAIN db.debts :
        SumRepayments(db.repayments, id) = db.debts[id].amount_paid

\* C2: in every state, each stored repayment has a transaction that mirrors it
\* (same amount, kind given by the obligation's type), and an obligation is
\* settled only if a repayment of it is stored.
C2_RepaymentIsOneUnit ==
    /\ \A i \in DOMAIN db.repayments :
           \E t \in db.transactions :
               /\ t.amount = db.repayments[i].amount
               /\ t.type = MirrorKind(db.debts[db.repayments[i].debt_id].type)
    /\ \A id \in DOMAIN db.debts :
           db.debts[id].status = "rembourse" =>
               \E i \in DOMAIN db.repayments : db.repayments[i].debt_id = id

\* C3: every successful repayment of amount a adds exactly one transaction, of
\* amount a, and moves the balance by -a for a debt and by +a for a loan.
C3_RepaymentMirrorsCash ==
    [][\A e \in RepayEntries :
          (SaveRepayment(e, "none") /\ last'.outcome = "ok") =>
              LET o == db.debts[dialog.debt_id]
                  added == db'.transactions \ db.transactions
              IN /\ db.transactions \subseteq db'.transactions
                 /\ Cardinality(added) = 1
                 /\ \A t \in added : t.amount = e.val /\ t.type = MirrorKind(o.type)
                 /\ Balance(db') = Balance(db)
                                   + (IF o.type = "dette" THEN -e.val ELSE e.val)]_vars

\* C4: a repayment that ends in a storage error leaves the store as it was
\* before the call.
C4_FailedRepaymentLeavesStore ==
    [][\A e \in RepayEntries, flt \in Faults :
          (SaveRepayment(e, flt) /\ last'.outcome = "sqlite3.Error") => db' = db]_vars

\* C5: a repayment whose amount is <= 0 or above the obligation's current
\* remaining is rejected with a validation error and changes nothing.
C5_InvalidRepaymentRejected ==
    [][\A e \in RepayEntries :
          (/\ SaveRepayment(e, "none")
           /\ e.num
           /\ (e.val <= 0 \/ e.val > Remaining(db, dialog.debt_id)))
          => (last'.outcome = "ValueError" /\ db' = db)]_vars

\* C6: once an obligation's remaining is 0 every repayment of it is rejected
\* with a validation error and changes nothing, and no repayment takes
\* amount_paid above the principal.
C6_NoRepaymentPastSettlement ==
    [][/\ \A e \in RepayEntries :
             (SaveRepayment(e, "none") /\ Remaining(db, dialog.debt_id) = 0)
                => (last'.outcome = "ValueError" /\ db' = db)
       /\ \A e \in RepayEntries, flt \in Faults :
             (SaveRepayment(e, flt) /\ db'.debts # db.debts)
                => db'.debts[dialog.debt_id].amount_paid
                      <= db.debts[dialog.debt_id].amount]_vars

\* C7: in every state every obligation has 0 <= amount_paid <= amount.
C7_PaidWithinPrincipal ==
    \A id \in DOMAIN db.debts :
        /\ 0 <= db.debts[id].amount_paid
        /\ db.debts[id].amount_paid <= db.debts[id].amount

\* C8: in every state an obligation is settled if and only if its amount_paid
\* has reached its amount, and active otherwise.
C8_StatusDerived ==
    \A id \in DOMAIN db.debts :
        /\ db.debts[id].status = "rembourse"
              <=> db.debts[id].amount_paid >= db.debts[id].amount
        /\ db.debts[id].status \in {"actif", "rembourse"}

\* C9: a successful repayment of amount a stores exactly one new repayment row
\* (its debt_id, a), adds a to the stored amount_paid, sets the status to
\* settled exactly when the new amount_paid reaches the amount, changes no
\* other field, and a partial one leaves the obligation active with the
\* remaining reduced by a.
C9_RepaymentEffect ==
    [][\A e \in RepayEntries :
          (SaveRepayment(e, "none") /\ last'.outcome = "ok") =>
              LET id == dialog.debt_id
                  o  == db.debts[id]
                  n  == db'.debts[id]
              IN /\ db'.repayments = Append(db.repayments,
                                            [debt_id |-> id, amount |-> e.val])
                 /\ n.amount_paid = o.amount_paid + e.val
                 /\ n.status = (IF n.amount_paid >= o.amount THEN "rembourse" ELSE "actif")
                 /\ n = [o EXCEPT !.amount_paid = n.amount_paid, !.status = n.status]
                 /\ \A other \in DOMAIN db.debts \ {id} : db'.debts[other] = db.debts[other]
                 /\ e.val < Remaining(db, id)
                       => (n.status = "actif"
                           /\ Remaining(db', id) = Remaining(db, id) - e.val)]_vars

\* C10: opening an obligation with amount <= 0 or rate < 0 is rejected with a
\* validation error and stores nothing; an obligation that is opened starts
\* with amount_paid 0 and status active.
C10_OpenValidated ==
    [][\A type \in DebtTypes, phone \in Phones, a \in DebtEntries, r \in RateEntries,
          due \in Dates :
          AddDebt(type, phone, a, r, due, "none") =>
              /\ (a.num /\ r.num /\ (a.val <= 0 \/ r.val < 0))
                    => (last'.outcome = "ValueError" /\ db' = db)
              /\ Len(db'.debts) > Len(db.debts)
                    => (/\ db'.debts[Len(db'.debts)].amount_paid = 0
                        /\ db'.debts[Len(db'.debts)].status = "actif")]_vars

\* C11: add_transaction_dialog.save with an amount <= 0 ends in the ValueError
\* message and leaves the transactions, the balance and the monthly totals as
\* they were; with an amount > 0 and no storage error it adds exactly one row,
\* with the type, category, amount and date of the form, under a fresh id.
C11_AddTransactionValidated ==
    [][\A type \in TransTypes, category \in Categories, entry \in TransEntries,
          date \in Dates, flt \in Faults :
          (last'.op = "add_transaction"
           /\ AddTransaction(type, category, entry, date, flt)) =>
            /\ (entry.num /\ entry.val <= 0) =>
                 /\ last'.outcome = "ValueError"
                 /\ db' = db
                 /\ calculate_stats(db', today') = calculate_stats(db, today)
            /\ (entry.num /\ entry.val > 0 /\ flt = "none") =>
                 /\ last'.outcome = "ok"
                 /\ \E t \in db'.transactions :
                      /\ \A u \in db.transactions : u.id # t.id
                      /\ t.type = type /\ t.category = category
                      /\ t.amount = entry.val /\ t.date = date
                      /\ db'.transactions = db.transactions \cup {t}
                 /\ Cardinality(db'.transactions) = Cardinality(db.transactions) + 1
                 /\ db'.debts = db.debts /\ db'.repayments = db.repayments]_vars

C11_Witness ==
    /\ last = Outcome("add_transaction", "ok")
    /\ \E t \in db.transactions : t.id = db.seq_transactions /\ t.amount > 0

\* C13: a handler given an id that names no stored row (the delete of a
\* transaction whose row is gone, the repayment dialog of a debt that does
\* not exist) ends in an error and leaves the store as it was; it never
\* completes as a successful operation does.
C13_UnknownIdRejected ==
    [][/\ \A id \in 1..MaxTrans :
            (/\ DeleteTransaction(id, "none")
             /\ id <= db.seq_transactions
             /\ \A t \in db.transactions : t.id # id)
            => (last'.outcome # "ok" /\ db' = db)
       /\ \A debt_id \in 1..MaxDebts :
            (ShowRepaymentDialog(debt_id) /\ debt_id \notin DOMAIN db.debts)
            => (last'.outcome # "ok" /\ db' = db)]_vars

\* C14: whenever calculate_stats has just run, after any run of additions,
\* deletions and repayments, the balance it returned is the sum of the amounts
\* of the stored 'revenu' rows minus the sum of the amounts of the stored
\* 'depense' rows, which is 0 for an empty table.
C14_BalanceIsRescan ==
    view.kind = "calculate_stats" =>
        /\ view.out.balance =
              SumAmount({t \in db.transactions : t.type = "revenu"})
              - SumAmount({t \in db.transactions : t.type = "depense"})
        /\ db.transactions = {} => view.out.balance = 0

C14_Witness ==
    /\ view.kind = "calculate_stats"
    /\ \E t, u \in db.transactions :
          t.type = "revenu" /\ u.type = "depense" /\ t.amount < u.amount
    /\ view.out.balance < 0

\* The rows of one type whose date lies in the calendar month that holds day:
\* from the first day of that month to its last.
RowsOfMonth(d, type, day) ==
    LET first == CHOOSE f \in (day - DaysPerMonth + 1)..day : (f - 1) % DaysPerMonth = 0
    IN  {t \in d.transactions :
            t.type = type /\ first <= t.date /\ t.date <= first + DaysPerMonth - 1}

\* C20: whenever calculate_stats has just run, the monthly income (expense) it
\* returned is the sum of the amounts of the stored 'revenu' ('depense') rows
\* dated in the current calendar month, rows of the other type and of other
\* months left out, and it is 0 when no row matches.
C20_MonthlyTotals ==
    view.kind = "calculate_stats" =>
        /\ view.out.monthly_income = SumAmount(RowsOfMonth(db, "revenu", today))
        /\ view.out.monthly_expense = SumAmount(RowsOfMonth(db, "depense", today))
        /\ RowsOfMonth(db, "revenu", today) = {} => view.out.monthly_income = 0
        /\ RowsOfMonth(db, "depense", today) = {} => view.out.monthly_expense = 0

C20_Witness ==
    /\ view.kind = "calculate_stats"
    /\ \E t, u \in db.transactions :
          /\ t.type = "revenu" /\ t \in RowsOfMonth(db, "revenu", today)
          /\ u.type = "revenu" /\ u \notin RowsOfMonth(db, "revenu", today)
          /\ view.out.monthly_income = t.amount
    /\ view.out.monthly_expense = 0

\* the debts rows with status 'actif' that fell due before day
Overdue(d, day) ==
    {i \in DOMAIN d.debts : d.debts[i].status = "actif" /\ d.debts[i].due_date < day}

\* the debts rows with status 'actif' due on day or later
Pending(d, day) ==
    {i \in DOMAIN d.debts : d.debts[i].status = "actif" /\ d.debts[i].due_date >= day}

\* the alerts of a list that carry the given title
AlertsTitled(alerts, title) == {k \in DOMAIN alerts : alerts[k].title = title}

\* C15: on any date, a debt with status 'actif' due before today has no line
\* in the deadlines views and is counted by the late-debts alert; one due
\* today or later has its line in the deadlines table and is not counted; and
\* loading either view leaves every debt row, its status included, as it was.
C15_OverdueOnlyInAlerts ==
    [][/\ (last'.op = "load_all_deadlines" /\ LoadAllDeadlines) =>
            /\ \A k \in DOMAIN view'.out : view'.out[k].due >= today
            /\ \A i \in Pending(db, today) :
                 \E k \in DOMAIN view'.out :
                    /\ view'.out[k].due = db.debts[i].due_date
                    /\ view'.out[k].type = db.debts[i].type
            /\ Len(view'.out) = Cardinality(Pending(db, today))
            /\ db'.debts = db.debts
       /\ (last'.op = "load_upcoming_deadlines" /\ LoadUpcomingDeadlines) =>
            /\ \A k \in DOMAIN view'.out : view'.out[k].due_date >= today
            /\ db'.debts = db.debts
       /\ (last'.op = "load_alerts" /\ LoadAlerts) =>
            /\ \A k \in AlertsTitled(view'.out, "dettes en retard") :
                 view'.out[k].value = Cardinality(Overdue(db, today))
            /\ Overdue(db, today) # {} =>
                 AlertsTitled(view'.out, "dettes en retard") # {}
            /\ db'.debts = db.debts]_vars

C15_Witness ==
    /\ view.kind = "load_alerts"
    /\ Overdue(db, today) # {} /\ Pending(db, today) # {}
    /\ \E k \in DOMAIN view.out :
          view.out[k].title = "dettes en retard" /\ view.out[k].value = 1

\* C16: whenever load_all_deadlines has just run, its lines are exactly the
\* debts with status 'actif' and due_date >= today, one line each, in ascending
\* order of due_date, each with the whole number of days from today to its
\* due_date, which is 0 for a debt due today.
C16_DeadlinesExact ==
    view.kind = "load_all_deadlines" =>
        /\ \E f \in Arrangements(Pending(db, today)) :
              /\ Len(view.out) = Cardinality(Pending(db, today))
              /\ \A k \in DOMAIN view.out :
                    /\ view.out[k].due = db.debts[f[k]].due_date
                    /\ view.out[k].type = db.debts[f[k]].type
                    /\ view.out[k].amount =
                          db.debts[f[k]].amount - db.debts[f[k]].amount_paid
                    /\ view.out[k].days_int = db.debts[f[k]].due_date - today
                    /\ db.debts[f[k]].due_date = today => view.out[k].days_int = 0
        /\ \A k \in 1..(Len(view.out) - 1) : view.out[k].due <= view.out[k + 1].due

C16_Witness ==
    /\ view.kind = "load_all_deadlines"
    /\ Len(db.debts) = 2 /\ db.debts[1].due_date > db.debts[2].due_date
    /\ Len(view.out) = 2
    /\ view.out[1].days_int = 0 /\ view.out[2].days_int > 0

\* C17: every line of the deadlines table is tagged 'urgent' when its days
\* are 3 or fewer, 'warning' when they are 4 to 7, and 'normal' when they are
\* more than 7.
C17_Tiers ==
    view.kind = "load_all_deadlines" =>
        \A k \in DOMAIN view.out :
            /\ view.out[k].days_int <= 3 => view.out[k].tag = "urgent"
            /\ (4 <= view.out[k].days_int /\ view.out[k].days_int <= 7)
                  => view.out[k].tag = "warning"
            /\ view.out[k].days_int > 7 => view.out[k].tag = "normal"

C17_Witness ==
    /\ view.kind = "load_all_deadlines"
    /\ \E k \in DOMAIN view.out : view.out[k].days_int = 3 /\ view.out[k].tag = "urgent"
    /\ \E k \in DOMAIN view.out : view.out[k].days_int = 8 /\ view.out[k].tag = "normal"

C12_StoredAmountsPositive ==
    /\ \A t \in db.transactions : t.amount > 0
    /\ \A k \in DOMAIN sheet.Flux : sheet.Flux[k].Montant > 0

\* the transactions rows a filter of the transactions page selects
Filtered(d, filter_type) ==
    IF filter_type = "Revenus" THEN {t \in d.transactions : t.type = "revenu"}
    ELSE IF filter_type = "Depenses" THEN {t \in d.transactions : t.type = "depense"}
    ELSE d.transactions

\* C21: whenever load_transactions has just run, its lines are exactly the
\* stored transactions its filter selects, one line each, in descending order
\* of date, and of two lines with the same date the one inserted later (the
\* larger id) comes first, also when both were inserted in the same second.
C21_ListingOrder ==
    view.kind = "load_transactions" =>
        /\ {view.out[k].id : k \in DOMAIN view.out}
              = {t.id : t \in Filtered(db, view.arg)}
        /\ Len(view.out) = Cardinality(Filtered(db, view.arg))
        /\ \A k \in 1..(Len(view.out) - 1) : view.out[k].date >= view.out[k + 1].date
        /\ \A j, k \in DOMAIN view.out :
              (j < k /\ view.out[j].date = view.out[k].date)
                 => view.out[j].id > view.out[k].id

\* C22: whenever load_debts_data has just run for a type, its lines are stored
\* debts of that type, one line each, in ascending order of due_date, and every
\* stored debt of that type, with status 'rembourse' as well as 'actif', is in
\* a list the query can return.
C22_ObligationListing ==
    view.kind = "load_debts_data" =>
        /\ \A k \in DOMAIN view.out :
              /\ view.out[k].id \in DOMAIN db.debts
              /\ db.debts[view.out[k].id].type = view.arg
              /\ view.out[k].due_date = db.debts[view.out[k].id].due_date
        /\ \A j, k \in DOMAIN view.out : j # k => view.out[j].id # view.out[k].id
        /\ \A k \in 1..(Len(view.out) - 1) :
              view.out[k].due_date <= view.out[k + 1].due_date
        /\ \A i \in DOMAIN db.debts :
              db.debts[i].type = view.arg =>
                 \E out \in load_debts_data(db, view.arg) :
                    \E k \in DOMAIN out : out[k].id = i

\* C23: in every step no debt row is removed; a debt row that exists changes
\* only in a step of show_repayment_dialog.save, only the row of the dialog and
\* only in amount_paid and status; the repayments rows stay as they are in
\* every step but that one, which at most appends a row for the debt of the
\* dialog.  So adding or deleting a transaction, entering another debt and
\* loading any view leave every existing debt and its repayments unchanged.
C23_OnlyRepaymentChangesDebt ==
    [][/\ Len(db'.debts) >= Len(db.debts)
       /\ \A i \in DOMAIN db.debts :
             db'.debts[i] # db.debts[i] =>
                /\ last'.op = "save_repayment"
                /\ i = dialog.debt_id
                /\ db'.debts[i] = [db.debts[i] EXCEPT
                                      !.amount_paid = db'.debts[i].amount_paid,
                                      !.status = db'.debts[i].status]
       /\ db'.repayments # db.repayments =>
             /\ last'.op = "save_repayment"
             /\ Len(db'.repayments) = Len(db.repayments) + 1
             /\ SubSeq(db'.repayments, 1, Len(db.repayments)) = db.repayments
             /\ db'.repayments[Len(db'.repayments)].debt_id = dialog.debt_id]_vars

C23_Witness ==
    /\ last = Outcome("add_debt", "ok")
    /\ Len(db.debts) = 2
    /\ db.debts[1].amount_paid = 1 /\ db.debts[1].status = "actif"
    /\ db.repayments # <<>>
    /\ db.seq_transactions > 0 /\ db.transactions = {}

\* C25: in every step the status of every existing debt row either stays as
\* it is or goes from 'actif' to 'rembourse': it is never set to 'en_retard',
\* a row with status 'rembourse' never gets 'actif' again, and amount_paid
\* never goes down.
C25_StatusMonotone ==
    [][\A i \in DOMAIN db.debts :
          /\ db'.debts[i].status # "en_retard"
          /\ db'.debts[i].status # db.debts[i].status =>
                (db.debts[i].status = "actif" /\ db'.debts[i].status = "rembourse")
          /\ db'.debts[i].amount_paid >= db.debts[i].amount_paid]_vars

\* C26: while a debt row has status 'actif', a repayment of exactly its
\* remaining amount that meets no storage error is accepted and leaves the row
\* with status 'rembourse' and remaining 0; and every accepted repayment makes
\* the remaining of its debt strictly smaller and never negative, so a debt of
\* whole units takes at most as many repayments as its amount.
C26_CanBeSettled ==
    [][\A e \in RepayEntries :
          (last'.op = "save_repayment" /\ SaveRepayment(e, "none")) =>
             LET id == dialog.debt_id IN
             /\ (e.num /\ db.debts[id].status = "actif" /\ e.val = Remaining(db, id)) =>
                   /\ last'.outcome = "ok"
                   /\ db'.debts[id].status = "rembourse"
                   /\ Remaining(db', id) = 0
             /\ last'.outcome = "ok" =>
                   /\ Remaining(db', id) < Remaining(db, id)
                   /\ Remaining(db', id) >= 0]_vars

\* the debts rows with status 'rembourse'
Settled(d) == {i \in DOMAIN d.debts : d.debts[i].status = "rembourse"}

\* C27: whatever its due_date, a debt with status 'rembourse' has no line in
\* the table of its type, no line in the 7-day list nor in the deadlines
\* table (their lines are, one for one, the debts with status 'actif' in
\* range), and is counted neither by the late-debts alert nor by the number
\* of active debts.
C27_SettledAbsent ==
    /\ view.kind = "load_debts_data" =>
          \A k \in DOMAIN view.out : view.out[k].id \notin Settled(db)
    /\ view.kind = "load_all_deadlines" =>
          /\ Len(view.out) = Cardinality(Pending(db, today))
          /\ \A k \in DOMAIN view.out : \E i \in Pending(db, today) :
                /\ view.out[k].due = db.debts[i].due_date
                /\ view.out[k].type = db.debts[i].type
                /\ view.out[k].amount = Remaining(db, i)
    /\ view.kind = "load_upcoming_deadlines" =>
          LET week == {i \in Pending(db, today) : db.debts[i].due_date <= today + 7} IN
          /\ Len(view.out) = Cardinality(week)
          /\ \A k \in DOMAIN view.out : \E i \in week :
                /\ view.out[k].due_date = db.debts[i].due_date
                /\ view.out[k].type = db.debts[i].type
                /\ view.out[k].amount = Remaining(db, i)
    /\ view.kind = "load_alerts" =>
          \A k \in AlertsTitled(view.out, "dettes en retard") :
             view.out[k].value = Cardinality(Overdue(db, today))
    /\ view.kind = "calculate_stats" =>
          view.out.active_debts = Cardinality(DOMAIN db.debts \ Settled(db))

C27_Witness ==
    /\ view.kind = "load_debts_data"
    /\ \E i \in Settled(db), j \in DOMAIN db.debts \ Settled(db) :
          /\ db.debts[i].type = view.arg /\ db.debts[j].type = view.arg
          /\ db.debts[i].due_date > today /\ db.debts[i].due_date < db.debts[j].due_date
    /\ Len(view.out) = 1

\* how often a repayment of amount is stored for a debt
TimesRepaid(d, debt_id, amount) ==
    Cardinality({i \in DOMAIN d.repayments :
                    d.repayments[i].debt_id = debt_id /\ d.repayments[i].amount = amount})

\* C28: for a debt and two amounts a and b whose sum is at most its remaining
\* amount, repaying a and then b leaves the same amount_paid, the same status
\* and the same repayments, order aside, as repaying b and then a, and the
\* same amount_paid and status as one repayment of a + b.
C28_RepaymentOrder ==
    \A id \in DOMAIN db.debts : \A a, b \in 1..MaxTenths :
        (/\ a + b <= MaxTenths
         /\ fleq(fadd(Float(a), Float(b)),
                fsub(db.debts[id].amount, db.debts[id].amount_paid))) =>
            LET ab == repay(repay(db, id, Float(a)), id, Float(b))
                ba == repay(repay(db, id, Float(b)), id, Float(a))
                one == repay(db, id, Float(a + b))
            IN  /\ ab.debts[id].amount_paid = ba.debts[id].amount_paid
                /\ ab.debts[id].status = ba.debts[id].status
                /\ Len(ab.repayments) = Len(ba.repayments)
                /\ \A c \in 1..MaxTenths :
                      TimesRepaid(ab, id, Float(c)) = TimesRepaid(ba, id, Float(c))
                /\ one.debts[id].amount_paid = ab.debts[id].amount_paid
                /\ one.debts[id].status = ab.debts[id].status

\* C29: whenever load_upcoming_deadlines has just run, its lines are, one for
\* one, the debts with status 'actif' due from today to 7 days ahead, in
\* ascending order of due_date, and they open a list that load_all_deadlines
\* returns on the same day for the same rows, in the same order, where each of
\* them is tagged 'urgent' or 'warning', never 'normal'.
C29_WeekWithinAll ==
    view.kind = "load_upcoming_deadlines" =>
        LET week == {i \in Pending(db, today) : db.debts[i].due_date - today <= 7} IN
        /\ Len(view.out) = Cardinality(week)
        /\ \E f \in Arrangements(week) :
              \A k \in DOMAIN view.out :
                 /\ view.out[k].due_date = db.debts[f[k]].due_date
                 /\ view.out[k].type = db.debts[f[k]].type
                 /\ view.out[k].amount = Remaining(db, f[k])
        /\ \A k \in 1..(Len(view.out) - 1) :
              view.out[k].due_date <= view.out[k + 1].due_date
        /\ \E all \in load_all_deadlines(db, today) :
              /\ Len(view.out) <= Len(all)
              /\ \A k \in DOMAIN view.out :
                    /\ all[k].due = view.out[k].due_date
                    /\ all[k].type = view.out[k].type
                    /\ all[k].amount = view.out[k].amount
                    /\ all[k].days_int >= 0 /\ all[k].days_int <= 7
                    /\ all[k].tag \in {"urgent", "warning"}

C29_Witness ==
    /\ view.kind = "load_upcoming_deadlines"
    /\ Len(view.out) = 1 /\ view.out[1].due_date = today + 7
    /\ \E i \in Pending(db, today) : db.debts[i].due_date = today + 8

\* C24: in every step of the Streamlit front-end, whichever script runs of the
\* one server overlap, the rows that the worksheets hold stay: the Flux rows
\* remain, in place, and so do the Dettes rows, the Statut aside; no
\* conn.update erases a row that another script run wrote.
C24_NoCommittedRowErased ==
    [][/\ Len(sheet'.Flux) >= Len(sheet.Flux)
       /\ SubSeq(sheet'.Flux, 1, Len(sheet.Flux)) = sheet.Flux
       /\ Len(sheet'.Dettes) >= Len(sheet.Dettes)
       /\ \A i \in DOMAIN sheet.Dettes :
             [sheet'.Dettes[i] EXCEPT !.Statut = ""] = [sheet.Dettes[i] EXCEPT !.Statut = ""]]_vars

\* the Flux rows that the Payer button wrote
PaymentRows(sh) == {k \in DOMAIN sh.Flux : sh.Flux[k].Categorie = "Dettes"}

\* the Dettes rows marked as paid
PaidRows(sh) == {i \in DOMAIN sh.Dettes : sh.Dettes[i].Statut = "Paye"}

\* C30: the Payer button acts only on a row whose Statut in the worksheet is
\* 'En cours'; once no payment is under way the worksheet Flux holds one
\* payment row for each row of Dettes marked paid, no more and no fewer, with
\* minus the Montant for a debt and plus the Montant for a loan; and a row
\* marked paid never gets 'En cours' again.
C30_PaidOnce ==
    [][/\ \A s \in Sessions, i \in 1..MaxDettes :
             (last'.op = "payer" /\ session[s].pc = "loaded" /\ session'[s].pc = "payer"
              /\ session'[s].i = i) => sheet.Dettes[i].Statut = "En cours"
       /\ (\A s \in Sessions : session'[s].pc # "payer") =>
             /\ Cardinality(PaymentRows(sheet')) = Cardinality(PaidRows(sheet'))
             /\ \A k \in PaymentRows(sheet') : \E i \in PaidRows(sheet') :
                   sheet'.Flux[k].Montant = Impact(sheet'.Dettes[i])
       /\ \A i \in PaidRows(sheet) :
             i \in DOMAIN sheet'.Dettes => sheet'.Dettes[i].Statut = "Paye"]_vars

====
